---- MODULE Spec2Model ----
(***************************************************************************)
(* A state-machine model of cavy's TestRunner (src/src/TestRunner.js).     *)
(*                                                                         *)
(* One action per resumption of the two async functions run() and          *)
(* runTestSuites()/runTest(): everything the JavaScript executes between   *)
(* two awaits is one atomic step.  Outcomes of the collaborators           *)
(* (clearAsync, beforeEach, reRender, the test body f, reporter.send, the  *)
(* end-of-run delivery) are chosen by the environment when the step runs.  *)
(* Every call the runner makes on a collaborator or on the console is      *)
(* appended to the history variable calls, in program order.               *)
(* Date readings (start, stop, time, duration) are not modelled.           *)
(***************************************************************************)
EXTENDS Integers, Sequences, FiniteSets, TLC

\* ------------------------------------------------------------------ bounds
MaxSuites == 2
MaxCases == 2

\* ------------------------------------------------------ input value sets
NoTag == "undefined"
CaseTags == {NoTag, "a"}
\* this.filter: null, or an array of tags
NoFilter == [null |-> TRUE, tags |-> <<>>]
Filter(tags) == [null |-> FALSE, tags |-> tags]
Filters == {NoFilter, Filter(<<>>), Filter(<<"a">>)}
Reporters == {"function", "realtime", "deferred", "other", "undefined"}
SendReportFlags == {"undefined", "true", "false"}
StartDelays == {0, 200}
NoError == "none"
NoReport == [built |-> FALSE]

VARIABLES
  testSuites,        \* this.testSuites
  startDelay,        \* this.startDelay
  reporter,          \* this.reporter: the shape of the injected value
  shouldSendReport,  \* this.shouldSendReport
  filter,            \* this.filter
  results,           \* this.results
  errorCount,        \* this.errorCount
  runPc,             \* position of run()
  pc,                \* position of runTestSuites()/runTest()
  i, j,              \* loop indices of runTestSuites (1-based)
  report,            \* the report object built at lines 81-86, if any
  error,             \* the error runTestSuites rejected with, if any
  calls              \* history: collaborator and console calls, in order

vars == <<testSuites, startDelay, reporter, shouldSendReport, filter,
          results, errorCount, runPc, pc, i, j, report, error, calls>>

\* --------------------------------------------------- suite collections
RECURSIVE SeqsUpTo(_, _)
SeqsUpTo(S, n) ==
  IF n = 0 THEN {<<>>}
  ELSE LET shorter == SeqsUpTo(S, n - 1)
       IN shorter \cup {Append(s, x) : s \in {t \in shorter : Len(t) = n - 1}, x \in S}

TestCases == [tag : CaseTags]
TestScopes == [beforeEach : BOOLEAN, testCases : SeqsUpTo(TestCases, MaxCases)]

RECURSIVE CountCases(_)
CountCases(suites) ==
  IF suites = <<>> THEN 0
  ELSE Len(Head(suites).testCases) + CountCases(Tail(suites))

SuiteCollections ==
  {s \in SeqsUpTo(TestScopes, MaxSuites) : CountCases(s) <= MaxCases}

\* ------------------------------------------------------------- helpers
\* One entry of the history.  For the lifecycle calls arg is the position
\* <<suite, case>> of the case being run (suite index for beforeEach).
Call(op, arg) == [op |-> op, arg |-> arg]

\* Array.prototype.includes
Includes(arr, x) == \E k \in 1..Len(arr) : arr[k] = x

\* The part of the state the async functions write, and the sendReport flag
\* they read (line 23, never written after the constructor).
Machine ==
  [results |-> results, errorCount |-> errorCount, calls |-> calls,
   pc |-> pc, i |-> i, j |-> j, report |-> report, error |-> error,
   shouldSendReport |-> shouldSendReport]

Log(m, op, arg) == [m EXCEPT !.calls = Append(@, Call(op, arg))]

\* An error leaves runTest and, through the await at line 53, runTestSuites.
Reject(m, e) == [m EXCEPT !.pc = "rejected", !.error = e]

\* `${describeLabel}: ${label}`: the labels of a case are modelled by its
\* position in the collection.
Description(m) == <<m.i, m.j>>

\* A filter test that lets untagged cases through.
ShouldRunUntagged(tag) ==
  filter = NoFilter \/ tag = NoTag \/ (filter # NoFilter /\ Includes(filter.tags, tag))

\* line 52
ShouldRun(tag) == filter = NoFilter \/ (filter # NoFilter /\ Includes(filter.tags, tag))

\* A realtime test that takes every reporter object for a realtime one.
RealtimeTestAnyObject ==
  IF reporter = "function" THEN "false"
  ELSE IF reporter = "undefined" THEN "TypeError" ELSE "true"

\* lines 141-142 and 163-164: the realtime test.  Reading .type of an absent
\* reporter is a TypeError.
RealtimeTest ==
  IF reporter = "function" THEN "false"
  ELSE IF reporter = "undefined" THEN "TypeError"
  ELSE IF reporter = "realtime" THEN "true" ELSE "false"

\* lines 133-139
SuccessResult(m) ==
  [description |-> Description(m),
   message |-> <<Description(m), "passed">>,
   errorMessage |-> NoError,
   passed |-> TRUE]

\* lines 154-161
FailureResult(m, e) ==
  [description |-> Description(m),
   message |-> <<Description(m), "failed", e>>,
   errorMessage |-> e,
   passed |-> FALSE]

\* ------------------------------------------------------------- runTest
\* A runTest that is not awaited: the next case is reset in the same step.
StartTestTwice(m) ==
  LET m1 == Log(m, "clearAsync", Description(m))
  IN [Log(m1, "clearAsync", <<m.i, m.j + 1>>) EXCEPT !.pc = "clearAsync"]

\* lines 113-115: runTest up to its first await.
StartTest(m) ==
  [Log(m, "clearAsync", Description(m)) EXCEPT !.pc = "clearAsync"]

\* lines 119-126: reRender, then the call of the test body, up to the await.
CallTest(m, reRenderOk) ==
  LET m1 == Log(m, "reRender", Description(m))
  IN IF ~reRenderOk THEN Reject(m1, "reRenderError")
     ELSE [Log(m1, "f", Description(m)) EXCEPT !.pc = "f"]

\* A setup hook that is run for the first case of its suite only.
AfterClearAsyncFirstCaseOnly(m, reRenderOk) ==
  IF testSuites[m.i].beforeEach /\ m.j = 1
  THEN [Log(m, "beforeEach", m.i) EXCEPT !.pc = "beforeEach"]
  ELSE CallTest(m, reRenderOk)

\* line 117, or straight on to line 119 when the scope has no beforeEach.
AfterClearAsync(m, reRenderOk) ==
  IF testSuites[m.i].beforeEach
  THEN [Log(m, "beforeEach", m.i) EXCEPT !.pc = "beforeEach"]
  ELSE CallTest(m, reRenderOk)

\* A catch block that records the failure without counting it.
CatchBlockNoCount(m, e, sendOk) ==
  LET failure == FailureResult(m, e)
      m1 == Log(m, "console.warn", failure.message)
      m2 == [m1 EXCEPT !.results = Append(@, failure)]
  IN IF RealtimeTest = "TypeError" THEN Reject(m2, "TypeError")
     ELSE LET m3 == IF RealtimeTest = "true"
                    THEN Log(m2, "send", [message |-> failure.message, passed |-> FALSE])
                    ELSE m2
          IN IF RealtimeTest = "true" /\ ~sendOk THEN Reject(m3, "sendError") ELSE m3

\* lines 147-171: the catch block.  sendOk is the outcome of reporter.send.
CatchBlock(m, e, sendOk) ==
  LET failure == FailureResult(m, e)
      m1 == Log(m, "console.warn", failure.message)
      m2 == [m1 EXCEPT !.results = Append(@, failure)]
  IN IF RealtimeTest = "TypeError" THEN Reject(m2, "TypeError")
     ELSE LET m3 == IF RealtimeTest = "true"
                    THEN Log(m2, "send", [message |-> failure.message, passed |-> FALSE])
                    ELSE m2
          IN IF RealtimeTest = "true" /\ ~sendOk THEN Reject(m3, "sendError")
             ELSE [m3 EXCEPT !.errorCount = @ + 1]

\* lines 125-146: the try block from the moment the awaited body settles.
\* The settlement itself is entered in the history as f.returned / f.threw.
TryBlock(m, bodyOk, sendOk, catchSendOk) ==
  IF ~bodyOk THEN CatchBlock(Log(m, "f.threw", Description(m)), "boom", catchSendOk)
  ELSE LET success == SuccessResult(m)
           m0 == Log(m, "f.returned", Description(m))
           m1 == Log(m0, "console.log", success.message)
           m2 == [m1 EXCEPT !.results = Append(@, success)]
       IN IF RealtimeTest = "TypeError" THEN CatchBlock(m2, "TypeError", catchSendOk)
          ELSE IF RealtimeTest = "true"
          THEN LET m3 == Log(m2, "send", [message |-> success.message, passed |-> TRUE])
               IN IF sendOk THEN m3 ELSE CatchBlock(m3, "sendError", catchSendOk)
          ELSE m2

\* ------------------------------------------------------- runTestSuites
\* lines 74-86
BuildReport(m) ==
  [results |-> m.results,
   fullResults |-> [testCases |-> m.results],
   errorCount |-> m.errorCount]

\* lines 88-100.  globalMessage: whether the assignment to the undeclared
\* name message at line 96 (strict code) finds a global binding.
Dispatch(m, globalMessage) ==
  IF reporter = "function"
  THEN [Log(m, "reporter", m.report) EXCEPT !.pc = "deliver"]
  ELSE IF reporter = "undefined" THEN Reject(m, "TypeError")
  ELSE IF reporter = "realtime"
  THEN [Log(m, "onFinish", m.report) EXCEPT !.pc = "deliver"]
  ELSE IF reporter = "deferred"
  THEN [Log(m, "send", m.report) EXCEPT !.pc = "deliver"]
  ELSE IF globalMessage
  THEN [Log(m, "console.log", <<"invalid reporter">>) EXCEPT !.pc = "done"]
  ELSE Reject(m, "ReferenceError")

\* An end of run that returns before the Report whenever the flag is given.
EndOfLoopAnyFlagReturns(m, globalMessage) ==
  LET m1 == Log(m, "console.log", <<"stopped">>)
      m2 == IF m.shouldSendReport # "undefined"
            THEN Log(m1, "console.warn", <<"deprecation">>) ELSE m1
  IN IF m.shouldSendReport # "undefined" THEN [m2 EXCEPT !.pc = "done"]
     ELSE Dispatch([m2 EXCEPT !.report = BuildReport(m2)], globalMessage)

\* lines 58-100: from the end of the loops to the await of the delivery.
EndOfLoop(m, globalMessage) ==
  LET m1 == Log(m, "console.log", <<"stopped">>)
      m2 == IF m.shouldSendReport # "undefined"
            THEN Log(m1, "console.warn", <<"deprecation">>) ELSE m1
  IN IF m.shouldSendReport = "false" THEN [m2 EXCEPT !.pc = "done"]
     ELSE Dispatch([m2 EXCEPT !.report = BuildReport(m2)], globalMessage)

\* lines 44-56: the two loops from position (m.i, m.j), up to the next await.
RECURSIVE Loop(_, _)
Loop(m, globalMessage) ==
  IF m.i > Len(testSuites) THEN EndOfLoop(m, globalMessage)
  ELSE IF m.j > Len(testSuites[m.i].testCases)
  THEN Loop([m EXCEPT !.i = @ + 1, !.j = 1], globalMessage)
  ELSE IF ShouldRun(testSuites[m.i].testCases[m.j].tag) THEN StartTest(m)
  ELSE Loop([m EXCEPT !.j = @ + 1], globalMessage)

\* A loop that leaves the suite after one of its cases has run.
AfterTestNextSuite(m, globalMessage) ==
  IF m.pc = "rejected" THEN m
  ELSE Loop([m EXCEPT !.i = @ + 1, !.j = 1], globalMessage)

\* line 53 resumes when runTest has returned, then j++.
AfterTest(m, globalMessage) ==
  IF m.pc = "rejected" THEN m
  ELSE Loop([m EXCEPT !.j = @ + 1], globalMessage)

\* lines 39-43, then the loops.
StartSuites(m, globalMessage) ==
  Loop([Log(m, "console.log", <<"started">>) EXCEPT !.i = 1, !.j = 1], globalMessage)

\* ------------------------------------------------------------- actions
\* Outcomes the environment can choose.  A choice that the step cannot
\* observe is fixed, so that it does not multiply the transitions.
SendOutcomes == IF reporter = "realtime" THEN BOOLEAN ELSE {TRUE}
GlobalBindings == IF reporter = "other" THEN BOOLEAN ELSE {FALSE}

Write(m) ==
  /\ results' = m.results
  /\ errorCount' = m.errorCount
  /\ calls' = m.calls
  /\ pc' = m.pc
  /\ i' = m.i
  /\ j' = m.j
  /\ report' = m.report
  /\ error' = m.error
  /\ UNCHANGED <<testSuites, startDelay, reporter, shouldSendReport, filter>>

\* constructor, lines 16-29.  The start delay is read once, by run(), before
\* runTestSuites begins; a positive delay is explored with the callback
\* reporter and no sendReport flag, a zero delay with every configuration.
Init ==
  /\ testSuites \in SuiteCollections
  /\ startDelay \in StartDelays
  /\ reporter \in Reporters
  /\ shouldSendReport \in SendReportFlags
  /\ startDelay # 0 => (reporter = "function" /\ shouldSendReport = "undefined")
  /\ filter \in Filters
  /\ results = <<>>
  /\ errorCount = 0
  /\ runPc = "idle"
  /\ pc = "idle"
  /\ i = 0
  /\ j = 0
  /\ report = NoReport
  /\ error = NoError
  /\ calls = <<>>

\* A run() that starts the pause without awaiting it.
RunWithoutAwait ==
  /\ runPc = "idle"
  /\ runPc' = "returned"
  /\ \E g \in GlobalBindings :
       Write(StartSuites(IF startDelay # 0
                         THEN Log(Machine, "setTimeout", startDelay)
                         ELSE Machine, g))

\* A run() that awaits runTestSuites: it stays pending while the suites run
\* and is rejected with their error.
RunAwaiting ==
  /\ runPc = "idle"
  /\ IF startDelay # 0
     THEN /\ runPc' = "paused"
          /\ Write(Log(Machine, "setTimeout", startDelay))
     ELSE \E g \in GlobalBindings :
            LET m == StartSuites(Machine, g)
            IN /\ Write(m)
               /\ runPc' = (IF m.pc = "done" THEN "returned"
                            ELSE IF m.pc = "rejected" THEN "rejected"
                            ELSE "awaiting")

\* run(), lines 32-35, up to its first await (or to its end).
Run ==
  /\ runPc = "idle"
  /\ IF startDelay # 0
     THEN /\ runPc' = "paused"
          /\ Write(Log(Machine, "setTimeout", startDelay))
     ELSE /\ runPc' = "returned"
          /\ \E g \in GlobalBindings : Write(StartSuites(Machine, g))

\* pause(), lines 176-184: the timer fires and run() goes on to line 34.
PauseResolves ==
  /\ runPc = "paused"
  /\ runPc' = "returned"
  /\ \E g \in GlobalBindings : Write(StartSuites(Machine, g))

\* line 115 settles
ClearAsyncSettles ==
  /\ pc = "clearAsync"
  /\ \E ok \in BOOLEAN, reRenderOk \in BOOLEAN :
       Write(IF ok THEN AfterClearAsync(Machine, reRenderOk)
             ELSE Reject(Machine, "clearAsyncError"))
  /\ UNCHANGED runPc

\* line 117 settles
BeforeEachSettles ==
  /\ pc = "beforeEach"
  /\ \E ok \in BOOLEAN, reRenderOk \in BOOLEAN :
       Write(IF ok THEN CallTest(Machine, reRenderOk)
             ELSE Reject(Machine, "beforeEachError"))
  /\ UNCHANGED runPc

\* A runner that gives up on the awaited body and records a failure without
\* the body having settled.
TestSettlesOrTimesOut ==
  /\ pc = "f"
  /\ \E timedOut \in BOOLEAN, bodyOk \in BOOLEAN, sendOk \in SendOutcomes,
        catchSendOk \in SendOutcomes, g \in GlobalBindings :
       Write(AfterTest(IF timedOut THEN CatchBlock(Machine, "timeout", catchSendOk)
                       ELSE TryBlock(Machine, bodyOk, sendOk, catchSendOk), g))
  /\ UNCHANGED runPc

\* line 126 settles; the rest of runTest and the loops up to the next await.
TestSettles ==
  /\ pc = "f"
  /\ \E bodyOk \in BOOLEAN, sendOk \in SendOutcomes, catchSendOk \in SendOutcomes,
        g \in GlobalBindings :
       Write(AfterTest(TryBlock(Machine, bodyOk, sendOk, catchSendOk), g))
  /\ UNCHANGED runPc

\* A delivery failure caught like a case failure and turned into a Result.
DeliveryFailedCaught(m) ==
  [m EXCEPT !.results = Append(@, FailureResult(m, "deliveryError")),
            !.errorCount = @ + 1,
            !.pc = "done"]

\* lines 90, 92, 94: no try encloses the awaited delivery; its error leaves
\* runTestSuites.
DeliveryFailed(m) == Reject(m, "deliveryError")

\* lines 90, 92, 94: the awaited delivery settles.
DeliverySettles ==
  /\ pc = "deliver"
  /\ \E ok \in BOOLEAN :
       Write(IF ok THEN [Machine EXCEPT !.pc = "done"]
             ELSE DeliveryFailed(Machine))
  /\ UNCHANGED runPc

Next ==
  \/ Run
  \/ PauseResolves
  \/ ClearAsyncSettles
  \/ BeforeEachSettles
  \/ TestSettles
  \/ DeliverySettles

Spec == Init /\ [][Next]_vars

\* ===================================================== history operators
IsPrefix(s, t) == Len(s) <= Len(t) /\ \A k \in 1..Len(s) : s[k] = t[k]

\* The arguments of the calls of one operation, in call order.
RECURSIVE ArgsFrom(_, _)
ArgsFrom(op, k) ==
  IF k > Len(calls) THEN <<>>
  ELSE IF calls[k].op = op THEN <<calls[k].arg>> \o ArgsFrom(op, k + 1)
  ELSE ArgsFrom(op, k + 1)

Args(op) == ArgsFrom(op, 1)
Count(op) == Len(Args(op))

\* The declared cases, as positions, in suite-then-case declaration order.
RECURSIVE DeclaredFrom(_)
DeclaredFrom(n) ==
  IF n > Len(testSuites) THEN <<>>
  ELSE [k \in 1..Len(testSuites[n].testCases) |-> <<n, k>>] \o DeclaredFrom(n + 1)

Declared == DeclaredFrom(1)
TagOf(c) == testSuites[c[1]].testCases[c[2]].tag
FilterTags == {filter.tags[k] : k \in 1..Len(filter.tags)}
InFilter(c) == filter = NoFilter \/ TagOf(c) \in FilterTags

\* The declared cases that match the filter (all of them without a filter).
RECURSIVE Select(_, _)
Select(s, k) ==
  IF k > Len(s) THEN <<>>
  ELSE IF InFilter(s[k]) THEN <<s[k]>> \o Select(s, k + 1)
  ELSE Select(s, k + 1)

Matching == Select(Declared, 1)

Started == Args("clearAsync")     \* cases whose lifecycle was started
Bodies == Args("f")               \* cases whose body was called
LifecycleErrors == {"clearAsyncError", "beforeEachError", "reRenderError"}

\* The loops of runTestSuites have run to their end (line 60 was reached).
LoopFinished == \E k \in 1..Len(calls) :
  calls[k].op = "console.log" /\ calls[k].arg = <<"stopped">>

Failed(rs) == {k \in 1..Len(rs) : ~rs[k].passed}

\* ================================================================ claims

RECURSIVE SettledFrom(_)
SettledFrom(k) ==
  IF k > Len(calls) THEN <<>>
  ELSE IF calls[k].op \in {"f.returned", "f.threw"}
  THEN <<[case |-> calls[k].arg, passed |-> calls[k].op = "f.returned"]>> \o SettledFrom(k + 1)
  ELSE SettledFrom(k + 1)

Settled == SettledFrom(1)
ResultsOf(c) == {n \in 1..Len(results) : results[n].description = c}
ReporterOps == {"reporter", "onFinish", "send"}
Logged(op, text) == \E k \in 1..Len(calls) : calls[k].op = op /\ calls[k].arg = <<text>>

\* The position in calls of the n-th call of op (0 when there is none).
RECURSIVE IndexFrom(_, _, _)
IndexFrom(op, n, k) ==
  IF k > Len(calls) THEN 0
  ELSE IF calls[k].op = op THEN (IF n = 1 THEN k ELSE IndexFrom(op, n - 1, k + 1))
  ELSE IndexFrom(op, n, k + 1)

Index(op, n) == IndexFrom(op, n, 1)

\* C3: a case whose body throws has exactly one Result, with passed = false
\* and errorMessage equal to the error's message, and it does not halt the
\* run: after the throw the run goes on to the next matching case or to the
\* end-of-run step.
C3_BodyErrorContained ==
  \A k \in 1..Len(calls) :
    calls[k].op = "f.threw" =>
      /\ Cardinality(ResultsOf(calls[k].arg)) = 1
      /\ \A n \in ResultsOf(calls[k].arg) :
           ~results[n].passed /\ results[n].errorMessage = "boom"
      /\ \E n \in (k + 1)..Len(calls) :
           \/ calls[n].op = "clearAsync"
           \/ calls[n].op = "console.log" /\ calls[n].arg = <<"stopped">>

\* C4: an error raised by clearAsync, beforeEach or reRender is caught at the
\* case boundary: it never leaves runTest and never aborts the run.
C4_LifecycleErrorContained ==
  ~(pc = "rejected" /\ error \in LifecycleErrors)

\* C5: in every Report that runTestSuites builds, errorCount is the number
\* of Results whose passed field is false.
C5_ErrorCount ==
  report # NoReport =>
     /\ report.results = results
     /\ report.errorCount = Cardinality(Failed(report.results))

\* C5 witness: a Report over passed and failed Results.
C5_Witness ==
  /\ report # NoReport
  /\ Len(report.results) = 2
  /\ report.errorCount = 1

\* C6: at the end of a run results has one entry per case that matched the
\* filter, and the k-th Result belongs to the k-th executed case.
C6_ResultsMatchExecuted ==
  LoopFinished =>
     /\ Len(results) = Len(Matching)
     /\ \A k \in 1..Len(results) : results[k].description = Matching[k]

\* C7: when the sendReport flag is false no reporter operation (callback,
\* onFinish or send) is ever invoked, no Report is built, and a run that
\* ends has emitted the deprecation warning.
C7_FlagFalseSilent ==
  shouldSendReport = "false" =>
     /\ \A k \in 1..Len(calls) : calls[k].op \notin ReporterOps
     /\ report = NoReport
     /\ pc = "done" => Logged("console.warn", "deprecation")

\* C8: with a Realtime reporter there is exactly one send per case whose
\* body has settled, in execution order, carrying that case's outcome and
\* made before the next case's lifecycle starts; a run that reaches the
\* dispatch invokes onFinish exactly once, as its last call, with the Report.
C8_RealtimeProtocol ==
  reporter = "realtime" =>
     /\ Count("send") = Len(Settled)
     /\ \A k \in 1..Len(Settled) :
          /\ Args("send")[k].message[1] = Settled[k].case
          /\ Args("send")[k].passed = Settled[k].passed
          /\ Index("clearAsync", k + 1) # 0 =>
               Index("send", k) < Index("clearAsync", k + 1)
     /\ Count("onFinish") <= 1
     /\ (pc = "done" /\ shouldSendReport # "false") =>
          /\ Count("onFinish") = 1
          /\ calls[Len(calls)].op = "onFinish"
          /\ calls[Len(calls)].arg = report

\* The delivery operation of a Callback or Deferred reporter.
DeliveryOp == IF reporter = "function" THEN "reporter" ELSE "send"

\* What C9 says of a delivery once it has been made: it is the last call,
\* it carries the Report, whose fullResults.testCases is results, every
\* matching case has its Result, and no other reporter operation was called.
DeliveryWellFormed ==
  /\ Count(DeliveryOp) = 1 =>
       /\ calls[Len(calls)].op = DeliveryOp
       /\ calls[Len(calls)].arg = report
       /\ report.fullResults.testCases = results
       /\ report.results = results
       /\ LET matching == Matching
          IN /\ Len(results) = Len(matching)
             /\ \A k \in 1..Len(results) : results[k].description = matching[k]
  /\ \A k \in 1..Len(calls) : calls[k].op \in ReporterOps => calls[k].op = DeliveryOp

C10_InvalidReporterNotFatal ==
  reporter \in {"other", "undefined"} =>
     /\ error \notin {"TypeError", "ReferenceError"}
     /\ \A k \in 1..Len(calls) : calls[k].op \notin ReporterOps
     /\ \A k \in 1..Len(Settled) :
          /\ Cardinality(ResultsOf(Settled[k].case)) = 1
          /\ \A n \in ResultsOf(Settled[k].case) : results[n].passed = Settled[k].passed
     /\ (LoopFinished /\ shouldSendReport # "false") =>
          /\ pc = "done"
          /\ Logged("console.log", "invalid reporter")

\* C11: an error of the end-of-run delivery (callback, onFinish, Deferred
\* send) is not caught: whenever the awaited delivery settles, results and
\* errorCount stay as they are, and the run either completes or is rejected
\* with the delivery's error; that error never becomes a Result.
C11_DeliveryErrorPropagates ==
  /\ [][pc = "deliver" =>
          /\ results' = results
          /\ errorCount' = errorCount
          /\ pc' \in {"done", "rejected"}
          /\ pc' = "rejected" => error' = "deliveryError"]_vars
  /\ [](error = "deliveryError" =>
          /\ pc = "rejected"
          /\ results = report.results
          /\ errorCount = report.errorCount
          /\ \A n \in 1..Len(results) : results[n].errorMessage # "deliveryError")

\* C11 witness: the delivery of a Report over two Results, one failed, has
\* raised and runTestSuites is rejected with that error.
C11_Witness ==
  /\ error = "deliveryError"
  /\ pc = "rejected"
  /\ Len(results) = 2
  /\ errorCount = 1

\* C12: the lifecycle steps of a case occur in the fixed order state reset,
\* setup hook (if the suite declares one), resync, body: a body is called
\* right after the resync of its case, a resync right after the setup hook
\* of the case's suite when the suite declares one and right after the
\* case's state reset otherwise, and a setup hook only for a suite that
\* declares one, right after the state reset of one of its cases; so the
\* hook runs once for every such case and never for a suite without one.
C12_LifecycleOrder ==
  \A k \in 1..Len(calls) :
    /\ calls[k].op = "f" =>
         /\ k > 1
         /\ calls[k - 1].op = "reRender"
         /\ calls[k - 1].arg = calls[k].arg
    /\ calls[k].op = "reRender" =>
         IF testSuites[calls[k].arg[1]].beforeEach
         THEN /\ k > 2
              /\ calls[k - 1].op = "beforeEach"
              /\ calls[k - 1].arg = calls[k].arg[1]
              /\ calls[k - 2].op = "clearAsync"
              /\ calls[k - 2].arg = calls[k].arg
         ELSE /\ k > 1
              /\ calls[k - 1].op = "clearAsync"
              /\ calls[k - 1].arg = calls[k].arg
    /\ calls[k].op = "beforeEach" =>
         /\ testSuites[calls[k].arg].beforeEach
         /\ k > 1
         /\ calls[k - 1].op = "clearAsync"
         /\ calls[k - 1].arg[1] = calls[k].arg

\* C12 witness: both cases of a suite with a setup hook have had their body
\* called, and the hook has run twice.
C12_Witness ==
  /\ Len(testSuites) = 1
  /\ testSuites[1].beforeEach
  /\ Count("f") = 2
  /\ Count("beforeEach") = 2

\* C13: with a positive startDelay nothing of the suite iteration (no
\* run-start record, no lifecycle step, nothing but the timer) has happened
\* while run() has not been called or its pause has not resolved, the step
\* that calls run() only sets the timer and suspends, the first call after
\* the timer is made by the step that resolves the pause, and that call is
\* the run-start record; with startDelay 0 no timer is set, run() is never
\* paused and the run-start record is the first call of run().
C13_StartDelay == [](
  /\ startDelay # 0 =>
       /\ runPc = "idle" => calls = <<>>
       /\ runPc = "paused" =>
            /\ Len(calls) = 1
            /\ calls[1].op = "setTimeout"
            /\ calls[1].arg = startDelay
            /\ pc = "idle"
            /\ results = <<>>
       /\ runPc = "returned" =>
            /\ Len(calls) >= 2
            /\ calls[1].op = "setTimeout"
            /\ calls[2].op = "console.log"
            /\ calls[2].arg = <<"started">>
  /\ startDelay = 0 =>
       /\ runPc # "paused"
       /\ \A k \in 1..Len(calls) : calls[k].op # "setTimeout"
       /\ runPc = "idle" => calls = <<>>
       /\ runPc = "returned" =>
            /\ calls[1].op = "console.log"
            /\ calls[1].arg = <<"started">>)
  /\ [][startDelay # 0 =>
         /\ runPc = "idle" => (calls' = calls \/ runPc' = "paused")
         /\ (Len(calls) < 2 /\ Len(calls') >= 2) => runPc = "paused"]_vars

\* C13 witness: the pause of a positive delay has resolved and the first
\* case's lifecycle has started after it.
C13_Witness ==
  /\ startDelay = 200
  /\ runPc = "returned"
  /\ Len(calls) >= 3
  /\ calls[1].op = "setTimeout"
  /\ calls[3].op = "clearAsync"

\* The calls from position k on, read with the case `open` in progress
\* (<<>> when none is): a state reset finds no case in progress, and a body
\* that settles is the body of the case in progress.
RECURSIVE OneAtATimeFrom(_, _)
OneAtATimeFrom(k, open) ==
  IF k > Len(calls) THEN TRUE
  ELSE IF calls[k].op = "clearAsync"
  THEN open = <<>> /\ OneAtATimeFrom(k + 1, calls[k].arg)
  ELSE IF calls[k].op \in {"f.returned", "f.threw"}
  THEN open = calls[k].arg /\ OneAtATimeFrom(k + 1, <<>>)
  ELSE OneAtATimeFrom(k + 1, open)

\* C14: at most one case lifecycle is in progress: every started case but
\* the last has a Result; between two state resets the body of the earlier
\* case has settled; no case is started twice; and while the runner is
\* suspended in a lifecycle (reset, setup hook, body) the case in progress is
\* the last one started, the only one without a Result.
C14_OneLifecycleAtATime ==
  LET st == Started
  IN /\ \A n \in 1..Len(st) :
          /\ n < Len(st) => ResultsOf(st[n]) # {}
          /\ \A n2 \in 1..Len(st) : st[n] = st[n2] => n = n2
     /\ OneAtATimeFrom(1, <<>>)
     /\ pc \in {"clearAsync", "beforeEach", "f"} =>
          /\ Len(st) >= 1
          /\ st[Len(st)] = <<i, j>>
          /\ ResultsOf(<<i, j>>) = {}
          /\ \A n \in 1..Len(results) : \E n2 \in 1..(Len(st) - 1) :
               results[n].description = st[n2]

\* C14 witness: the only case of the second suite is in its body after the
\* only case of the first suite has its Result.
C14_Witness ==
  /\ pc = "f"
  /\ Started = << <<1, 1>>, <<2, 1>> >>
  /\ Len(results) = 1
  /\ results[1].description = <<1, 1>>

\* C15: while the body of a case has not settled the run stays at that
\* case: it has no Result, it is the last case started, no Report is built,
\* the loops have not ended and no end-of-run reporter operation has been
\* invoked; and the only step the run can take from there begins with the
\* settlement of that body.  A body that never settles therefore leaves the
\* run in this state for ever.
C15_HangingBodyHangsRun ==
  /\ [](pc = "f" =>
          LET st == Started
          IN /\ ResultsOf(<<i, j>>) = {}
             /\ st[Len(st)] = <<i, j>>
             /\ report = NoReport
             /\ ~LoopFinished
             /\ \A k \in 1..Len(calls) :
                  /\ calls[k].op \notin {"reporter", "onFinish"}
                  /\ reporter = "deferred" => calls[k].op # "send")
  /\ [][pc = "f" =>
          /\ Len(calls') > Len(calls)
          /\ calls'[Len(calls) + 1].op \in {"f.returned", "f.threw"}
          /\ calls'[Len(calls) + 1].arg = <<i, j>>]_vars

\* C15 witness: the body of the first of two matching cases is awaited and
\* has not settled.
C15_Witness ==
  /\ pc = "f"
  /\ <<i, j>> = <<1, 1>>
  /\ Len(Matching) = 2
  /\ results = <<>>
  /\ Count("f.returned") + Count("f.threw") = 0

\* The end-of-run operation of each valid reporter shape.
EndOfRunOp ==
  IF reporter = "function" THEN "reporter"
  ELSE IF reporter = "realtime" THEN "onFinish" ELSE "send"

\* The Reports handed to the end-of-run operation so far.
RECURSIVE DeliveriesFrom(_)
DeliveriesFrom(k) ==
  IF k > Len(calls) THEN <<>>
  ELSE IF calls[k].op = EndOfRunOp /\ calls[k].arg = report
  THEN <<calls[k].arg>> \o DeliveriesFrom(k + 1)
  ELSE DeliveriesFrom(k + 1)

\* C16: with a valid reporter, the sendReport flag absent and no failure of
\* reset, hook or resync, a run that has terminated (runTestSuites returned
\* or rejected) has delivered the Report to the end-of-run operation
\* exactly once.
C16_TerminatesAfterDelivery ==
  (/\ reporter \in {"function", "realtime", "deferred"}
   /\ shouldSendReport = "undefined"
   /\ error \notin LifecycleErrors
   /\ pc \in {"done", "rejected"}) =>
      /\ report # NoReport
      /\ Len(DeliveriesFrom(1)) = 1

\* C17: with a Realtime reporter every case whose body has settled has
\* exactly one Result, in execution order, whose passed flag is the outcome
\* of the body, and errorCount is the number of failed Results, whatever the
\* outcome of the per-case send.
C17_SendFailureHarmless ==
  reporter = "realtime" =>
     LET se == Settled
     IN /\ Len(results) = Len(se)
        /\ \A k \in 1..Len(se) :
             k <= Len(results) =>
                /\ results[k].description = se[k].case
                /\ results[k].passed = se[k].passed
        /\ errorCount = Cardinality(Failed(results))

\* C18: runTestSuites is entered at most once, in the very step in which
\* run() completes; run() has completed, and stays completed, whenever
\* runTestSuites is suspended in a case, awaits the delivery, has returned
\* or has been rejected with an error: the error never reaches run().
C18_RunDoesNotWait ==
  /\ [](/\ runPc \in {"idle", "paused", "returned"}
        /\ LET n == Cardinality({k \in 1..Len(calls) :
                       calls[k].op = "console.log" /\ calls[k].arg = <<"started">>})
           IN n = (IF runPc = "returned" THEN 1 ELSE 0)
        /\ pc # "idle" => runPc = "returned"
        /\ error # NoError => (pc = "rejected" /\ runPc = "returned"))
  /\ [][runPc = "returned" => runPc' = "returned"]_vars

\* C18 witness: run() has completed while the body of a case is awaited,
\* before any Report is built.
C18_Witness ==
  /\ runPc = "returned"
  /\ pc = "f"
  /\ report = NoReport
  /\ startDelay = 0

\* The same machine with the sendReport flag absent.
Absent(m) == [m EXCEPT !.shouldSendReport = "undefined"]

IsDeprecation(c) == c.op = "console.warn" /\ c.arg = <<"deprecation">>
NotDeprecation(c) == ~IsDeprecation(c)
IsClearAsync(c) == c.op = "clearAsync"

\* What a step leaves behind whatever the flag: the Results, the counter and
\* the cases whose lifecycle was started, in order.
Outcome(m) ==
  [results |-> m.results, errorCount |-> m.errorCount,
   started |-> SelectSeq(m.calls, IsClearAsync)]

\* All that a step leaves behind, but for the flag and the warning.
Behaviour(m) ==
  [results |-> m.results, errorCount |-> m.errorCount, pc |-> m.pc,
   i |-> m.i, j |-> m.j, report |-> m.report, error |-> m.error,
   calls |-> SelectSeq(m.calls, NotDeprecation)]

\* Two results of one step, taken with the given flag and with none, agree:
\* on the outcome always, on everything but the warning when the flag is true.
SameAsAbsent(withFlag, without) ==
  /\ Outcome(withFlag) = Outcome(without)
  /\ shouldSendReport = "true" => Behaviour(withFlag) = Behaviour(without)

====
